---- MODULE Spec2Model ----
(***************************************************************************)
(* A model of the PDF analysis application: the AIPDFTool of              *)
(* tools/ai_pdf_tool.py (one call of forward, with the secrets store, the  *)
(* file at pdf_path and the chat-completion endpoint as its environment)   *)
(* and the Streamlit script of streamlit_app.py (the runs of main of      *)
(* several browser sessions over one scratch directory).                   *)
(*                                                                         *)
(* Python values are tagged records: Str(s) is a str, None is None.  A     *)
(* text that holds extracted PDF text is a sequence of characters (each a  *)
(* one-character string), so that strip() can be computed; every other    *)
(* str is a TLA+ string built with \o as the code builds it with + and     *)
(* f-strings.                                                              *)
(***************************************************************************)
EXTENDS Naturals, Sequences, FiniteSets, TLC

VARIABLES
    call,           \* the latest call of AIPDFTool.forward: inputs, outcome, requests
    session_state,  \* per browser session: st.session_state (first_run, agent, chat_history)
    scratch,        \* the file names present in the scratch directory <cwd>/temp
    pc,             \* per browser session: where its run of main stands
    work,           \* per browser session: the locals of the run of main in progress
    last,           \* what the latest step did: a submission, an agent update, a clear
    turns           \* the number of submissions accepted so far by the process

vars == <<call, session_state, scratch, pc, work, last, turns>>
toolVars == <<call>>
appVars == <<session_state, scratch, pc, work, last, turns>>

(***************************************************************************)
(* Bounds of the model.                                                    *)
(***************************************************************************)
MaxPages == 2
MaxTurns == 1
MaxExtractions == 2

(***************************************************************************)
(* Python values, outcomes of a computation (a value returned or an        *)
(* exception raised) and the exception classes the handlers tell apart.    *)
(***************************************************************************)
Str(s) == [type |-> "str", val |-> s]
None == [type |-> "NoneType"]
IsStr(v) == v.type = "str"

Ret(v) == [kind |-> "return", value |-> v]
Raise(cls, msg) == [kind |-> "raise", cls |-> cls, msg |-> msg]

\* bool(v) is False: `if not api_key`
Falsy(v) == v = None \/ v = Str("")

(***************************************************************************)
(* str.strip() and the whitespace test of `if not pdf_text.strip()`.       *)
(***************************************************************************)
Whitespace == {" ", "\n", "\t", "\r"}

RECURSIVE LStrip(_)
LStrip(s) ==
    IF s = <<>> THEN <<>>
    ELSE IF Head(s) \in Whitespace THEN LStrip(Tail(s))
    ELSE s

RECURSIVE RStrip(_)
RStrip(s) ==
    IF s = <<>> THEN <<>>
    ELSE IF s[Len(s)] \in Whitespace THEN RStrip(SubSeq(s, 1, Len(s) - 1))
    ELSE s

strip(s) == RStrip(LStrip(s))

(***************************************************************************)
(* The decimal digits of a page number, as f"{page_num + 1}" writes them.  *)
(***************************************************************************)
Digit(d) ==
    CASE d = 0 -> "0" [] d = 1 -> "1" [] d = 2 -> "2" [] d = 3 -> "3"
      [] d = 4 -> "4" [] d = 5 -> "5" [] d = 6 -> "6" [] d = 7 -> "7"
      [] d = 8 -> "8" [] d = 9 -> "9"

RECURSIVE Decimal(_)
Decimal(n) ==
    IF n < 10 THEN <<Digit(n)>>
    ELSE Append(Decimal(n \div 10), Digit(n % 10))

\* f"\n--- Page {page_num + 1} ---\n" for the page at index page_num
PageMarker(page_num) ==
    <<"\n", "-", "-", "-", " ", "P", "a", "g", "e", " ">>
        \o Decimal(page_num + 1)
        \o <<" ", "-", "-", "-", "\n">>

(***************************************************************************)
(* The file found at pdf_path: no file, a file PyMuPDF cannot open, or a   *)
(* document, which is the sequence of its pages' texts (page.get_text()).  *)
(***************************************************************************)
PageTexts == {<<>>, <<" ">>, <<"T">>, <<"a", "\n", "b">>, <<"-", "-", "-">>}

RECURSIVE SeqsUpTo(_, _)
SeqsUpTo(S, n) ==
    IF n = 0 THEN {<<>>}
    ELSE LET shorter == SeqsUpTo(S, n - 1)
         IN  shorter \cup {Append(q, x) : q \in shorter, x \in S}

Documents == SeqsUpTo(PageTexts, MaxPages)

NoFile == [file |-> "absent", msg |-> "no such file"]
Unreadable == [file |-> "unreadable", msg |-> "Failed to open file"]
Document(pages) == [file |-> "pdf", pages |-> pages]

Files == {NoFile, Unreadable} \cup {Document(d) : d \in Documents}

\* mutant of exists: the existence of the file is not checked
exists_unchecked(file) == TRUE

\* os.path.exists(pdf_path)
exists(file) == file # NoFile

RECURSIVE PagesText_descending(_, _)
\* mutant of PagesText: the pages are met from the last to the first
PagesText_descending(pages, n) ==
    IF n = 0 THEN <<>>
    ELSE PageMarker(n - 1) \o pages[n] \o PagesText_descending(pages, n - 1)

RECURSIVE PagesText(_, _)
\* the loop of _extract_pdf_text over range(len(doc)), up to page index n - 1
PagesText(pages, n) ==
    IF n = 0 THEN <<>>
    ELSE PagesText(pages, n - 1) \o PageMarker(n - 1) \o pages[n]

extract_pdf_text(file) ==
    IF file.file = "pdf"
    THEN Ret(PagesText(file.pages, Len(file.pages)))
    ELSE Raise("Exception", "Failed to extract text from PDF: " \o file.msg)

(***************************************************************************)
(* _create_ai_prompt: preprompt + pdf_text + user_prompt.  The prompt is   *)
(* the concatenation of the pieces of this sequence.                       *)
(***************************************************************************)
Preprompt == "You are an expert document analyst ... DOCUMENT CONTENT:\n"

create_ai_prompt(pdf_text, user_query) ==
    <<Preprompt>> \o pdf_text
        \o <<"\n\nUSER QUESTION: " \o user_query
              \o "\n\nPlease provide a comprehensive answer based on the document content above.">>

(***************************************************************************)
(* The chat-completion endpoint.  What requests.post meets: an exception   *)
(* of requests (connection error, timeout), or a response with a status    *)
(* and a body; the body is a JSON object (a function on its keys) or is    *)
(* not JSON, and then response.json() raises a JSONDecodeError, which is a *)
(* RequestException in requests >= 2.27 and a plain ValueError before.     *)
(***************************************************************************)
Url == "https://openrouter.ai/api/v1/chat/completions"
Model == "google/gemini-2.5-pro"
MaxTokens == 1000000
Timeout == 60

Choice(content) == [message |-> [role |-> "assistant", content |-> content]]

JsonBodies ==
    { [choices |-> <<Choice(Str("First answer")), Choice(Str("Second answer"))>>],
      [choices |-> <<Choice(Str("Only answer"))>>],
      [choices |-> <<Choice(None)>>],
      [choices |-> <<>>],
      [error |-> "no choices"],
      [choices |-> <<[message |-> [role |-> "assistant"]]>>],
      [choices |-> <<[finish_reason |-> "stop"]>>] }

Response(status, body) == [kind |-> "response", status |-> status, body |-> body]
JsonBody(obj) == [parses |-> TRUE, value |-> obj]
NotJson(cls) ==
    [parses |-> FALSE, cls |-> cls, msg |-> "Expecting value: line 1 column 1 (char 0)"]

NetOutcomes ==
    { Raise("RequestException", "Read timed out. (read timeout=60)"),
      Raise("RequestException", "Connection refused"),
      Response(500, JsonBody([error |-> "server"])),
      Response(200, NotJson("RequestException")),
      Response(200, NotJson("ValueError")) }
    \cup {Response(200, JsonBody(b)) : b \in JsonBodies}

\* what the endpoint would answer to a second request of the same call
RetryOutcomes ==
    {Response(200, JsonBody([choices |-> <<Choice(Str("Answer to a retry"))>>]))}

\* the endpoint's answers to the successive requests of one call
Nets == {<<a, b>> : a \in NetOutcomes, b \in RetryOutcomes}

Request(prompt, api_key) ==
    [url |-> Url, authorization |-> "Bearer " \o api_key.val, model |-> Model,
     content |-> prompt, max_tokens |-> MaxTokens, timeout |-> Timeout]

\* response.raise_for_status()
raise_for_status(resp) ==
    IF resp.status >= 400
    THEN Raise("RequestException", "Server Error for url: " \o Url)
    ELSE Ret(None)

\* response.json()
json(resp) ==
    IF resp.body.parses
    THEN Ret(resp.body.value)
    ELSE Raise(resp.body.cls, resp.body.msg)

\* d[key], a KeyError when key is not in d
GetItem(d, key) ==
    IF key \in DOMAIN d THEN Ret(d[key]) ELSE Raise("KeyError", "'" \o key \o "'")

\* mutant of FirstChoice: the last choice is read, not the first
FirstChoice_last(result) ==
    IF "choices" \in DOMAIN result /\ Len(result.choices) > 0
    THEN LET message == GetItem(result.choices[Len(result.choices)], "message")
         IN  IF message.kind = "raise" THEN message
             ELSE GetItem(message.value, "content")
    ELSE Ret(Str("Error: No response received from AI service."))

\* result['choices'][0]['message']['content'], or the no-response text
FirstChoice(result) ==
    IF "choices" \in DOMAIN result /\ Len(result.choices) > 0
    THEN LET message == GetItem(result.choices[1], "message")
         IN  IF message.kind = "raise" THEN message
             ELSE GetItem(message.value, "content")
    ELSE Ret(Str("Error: No response received from AI service."))

\* the try block of _query_openrouter_ai on the answer to its request
QueryBody(resp) ==
    IF resp.kind = "raise" THEN resp
    ELSE LET checked == raise_for_status(resp)
         IN  IF checked.kind = "raise" THEN checked
             ELSE LET result == json(resp)
                  IN  IF result.kind = "raise" THEN result
                      ELSE FirstChoice(result.value)

\* the except clauses of _query_openrouter_ai
QueryHandlers(out) ==
    IF out.kind = "raise" /\ out.cls = "RequestException"
    THEN Raise("Exception", "API request failed: " \o out.msg)
    ELSE IF out.kind = "raise" /\ out.cls = "KeyError"
    THEN Raise("Exception", "Unexpected API response format: " \o out.msg)
    ELSE out

\* mutant of query_openrouter_ai: a failed request is posted a second time
query_openrouter_ai_retry(prompt, api_key, net) ==
    IF QueryBody(net[1]).kind = "raise"
    THEN [out |-> QueryHandlers(QueryBody(net[2])),
          posts |-> <<Request(prompt, api_key), Request(prompt, api_key)>>]
    ELSE [out |-> QueryHandlers(QueryBody(net[1])),
          posts |-> <<Request(prompt, api_key)>>]

\* _query_openrouter_ai: its outcome and the requests it posted
query_openrouter_ai(prompt, api_key, net) ==
    [out |-> QueryHandlers(QueryBody(net[1])),
     posts |-> <<Request(prompt, api_key)>>]

(***************************************************************************)
(* AIPDFTool.forward.  Its environment: what st.secrets["openrouter"]      *)
(* ["api_key"] gives (a value, or the exception of a missing key, section  *)
(* or secrets file), the value of os.getenv("OPENROUTER_API_KEY"), the     *)
(* file found at pdf_path and the endpoint's answers.                      *)
(***************************************************************************)
Paths == {"temp/uploaded_a.pdf", "temp/uploaded_b.pdf"}
Queries == {"What is the total?"}

SecretsOutcomes ==
    { Ret(Str("sk-secret")), Ret(Str("")),
      Raise("KeyError", "'openrouter'"),
      Raise("AttributeError", "'NoneType' object has no attribute 'get'"),
      Raise("FileNotFoundError", "No secrets found.") }

EnvKeys == {None, Str(""), Str("sk-env")}

\* forward's inner try: the key of the secrets store, else of the environment
GetApiKey(secrets, envKey) ==
    IF secrets.kind = "raise" /\ secrets.cls \in {"KeyError", "AttributeError"}
    THEN Ret(envKey)
    ELSE secrets

MsgKeyRequired ==
    "Error: OpenRouter API key is required. Configure it in Streamlit secrets or set OPENROUTER_API_KEY environment variable."
MsgNoText == "Error: No text could be extracted from the PDF file."
MsgNotFound(pdf_path) == "Error: PDF file not found: " \o pdf_path

Done(out) == [out |-> out, posts |-> <<>>]

\* the outer try block of forward: its outcome and the requests it posted
ForwardBody(pdf_path, query, secrets, envKey, file, net) ==
    LET api_key == GetApiKey(secrets, envKey)
    IN  IF api_key.kind = "raise" THEN Done(api_key)
        ELSE IF Falsy(api_key.value) THEN Done(Ret(Str(MsgKeyRequired)))
        ELSE IF ~exists(file) THEN Done(Ret(Str(MsgNotFound(pdf_path))))
        ELSE LET pdf_text == extract_pdf_text(file)
             IN  IF pdf_text.kind = "raise" THEN Done(pdf_text)
                 ELSE IF strip(pdf_text.value) = <<>> THEN Done(Ret(Str(MsgNoText)))
                 ELSE query_openrouter_ai(create_ai_prompt(pdf_text.value, query),
                                          api_key.value, net)

\* the except clauses of forward
ForwardHandlers(out) ==
    IF out.kind # "raise" THEN out
    ELSE IF out.cls \in {"FileNotFoundError", "ValueError"}
    THEN Ret(Str("Error: " \o out.msg))
    ELSE Ret(Str("Error processing request: " \o out.msg))

forward(pdf_path, query, secrets, envKey, file, net) ==
    LET body == ForwardBody(pdf_path, query, secrets, envKey, file, net)
    IN  [out |-> ForwardHandlers(body.out), posts |-> body.posts]

(***************************************************************************)
(* The browser sessions of the application process and their state before  *)
(* any run of main.                                                        *)
(***************************************************************************)
Sessions == {"s1", "s2"}

\* a dict with no key
Empty == [k \in {} |-> TRUE]

\* d[key] = value
SetItem(d, key, value) ==
    [k \in DOMAIN d \cup {key} |-> IF k = key THEN value ELSE d[k]]

NoCall == [made |-> FALSE]
NoWork == [run |-> "none"]
NoStep == [op |-> "none"]

AppInit ==
    /\ session_state = [s \in Sessions |-> Empty]
    /\ scratch = {}
    /\ pc = [s \in Sessions |-> "idle"]
    /\ work = [s \in Sessions |-> NoWork]
    /\ last = NoStep
    /\ turns = 0

(***************************************************************************)
(* Texts of the application.  A str of streamlit_app.py is the sequence of *)
(* its pieces, + and f-strings being \o: the user's text is written one    *)
(* character a piece, so that strip(), lower() and `keyword in text` are   *)
(* computed; a file name ends with its extension as a piece of its own, so *)
(* that endswith() is.                                                     *)
(***************************************************************************)
UpperCase == <<"A", "B", "C", "D", "E", "F", "G", "H", "I", "J", "K", "L", "M",
               "N", "O", "P", "Q", "R", "S", "T", "U", "V", "W", "X", "Y", "Z">>
LowerCase == <<"a", "b", "c", "d", "e", "f", "g", "h", "i", "j", "k", "l", "m",
               "n", "o", "p", "q", "r", "s", "t", "u", "v", "w", "x", "y", "z">>

LowerChar(ch) ==
    IF \E i \in DOMAIN UpperCase : UpperCase[i] = ch
    THEN LowerCase[CHOOSE i \in DOMAIN UpperCase : UpperCase[i] = ch]
    ELSE ch

\* str.lower()
lower(text) == [i \in DOMAIN text |-> LowerChar(text[i])]

\* keyword in text
Contains(text, keyword) ==
    \E i \in 0..Len(text) :
        /\ i + Len(keyword) <= Len(text)
        /\ SubSeq(text, i + 1, i + Len(keyword)) = keyword

Keywords ==
    { <<"c", "o", "m", "p", "a", "r", "e">>,
      <<"d", "i", "f", "f", "e", "r", "e", "n", "c", "e">>,
      <<"d", "i", "f", "f", "é", "r", "e", "n", "c", "e">>,
      <<"c", "o", "m", "p", "a", "r", "e", "r">>,
      <<"v", "s">>,
      <<"v", "e", "r", "s", "u", "s">> }

\* any(keyword in message_text.lower() for keyword in [...])
WantsComparison(message_text) ==
    \E keyword \in Keywords : Contains(lower(message_text), keyword)

\* file.endswith(('.xlsx', '.docx'))
IsGenerated(name) == name # <<>> /\ name[Len(name)] \in {".xlsx", ".docx"}

\* str(value): a str is itself, any other object gives its text
ToStr(value) == IF value.type = "str" THEN value.val ELSE value.repr

RECURSIVE JoinWith(_, _)
\* sep.join(texts)
JoinWith(sep, texts) ==
    IF texts = <<>> THEN <<>>
    ELSE IF Len(texts) = 1 THEN texts[1]
    ELSE texts[1] \o sep \o JoinWith(sep, Tail(texts))

\* the orders in which a loop may meet the elements of a set
Orders(S) ==
    {q \in [1..Cardinality(S) -> S] : \A i, j \in DOMAIN q : i # j => q[i] # q[j]}

(***************************************************************************)
(* The scratch directory <cwd>/temp and the files of a submission.         *)
(***************************************************************************)
TempDir == "temp/"

\* os.path.join(temp_dir, name)
PathJoin(dir, name) == <<dir>> \o name

PdfA == [name |-> <<"a", ".pdf">>, type |-> "application/pdf", size |-> 1024]
PdfB == [name |-> <<"b", ".pdf">>, type |-> "application/pdf", size |-> 2048]
NotPdf == [name |-> <<"c", ".pdf">>, type |-> "application/octet-stream", size |-> 512]

\* the files a submission may carry, in upload order
Uploads == {<<>>, <<PdfA>>, <<NotPdf>>, <<PdfB, PdfA>>}

\* the text a submission may carry: blank, a question, a comparison
Texts == {<<" ">>, <<"S", "u", "m">>, <<"A", " ", "V", "S", " ", "B">>}

\* the files the document generation tools may write during a run of the agent
GeneratedNames == {<<"report", ".xlsx">>}

(***************************************************************************)
(* initialize_agent.  Its environment is what st.secrets["openrouter"]     *)
(* gives, or the exception raised on the way to the CodeAgent.             *)
(***************************************************************************)
\* model_name: str = None
NoModelName == "None"
DefaultModel == "qwen/qwen3-coder:free"
DefaultSteps == 10
ModelNames == {"qwen/qwen3-coder:free", "google/gemini-2.0-flash-exp:free"}
StepChoices == {10}

InitOutcomes ==
    { Ret([api_key |-> "sk-secret", default_model |-> "qwen/qwen3-coder:free"]),
      Raise("KeyError", "'openrouter'") }

ToolNames == <<"ai_pdf_analysis", "excel_generator", "simple_excel_generator",
               "simple_word_generator">>

\* the CodeAgent, or None after st.error
initialize_agent(model_name, max_steps, env) ==
    IF env.kind = "raise" THEN None
    ELSE [type |-> "CodeAgent",
          model_id |-> IF model_name = NoModelName THEN env.value.default_model
                       ELSE model_name,
          tools |-> ToolNames, max_steps |-> max_steps]

\* bool(agent): `if agent:`
Truthy(agent) == agent # None

(***************************************************************************)
(* process_user_input: the instruction it formats, its one run of the      *)
(* agent and the text it returns.  `run` is what agent.run meets: the      *)
(* agent's answer, or an exception of the agent.  pdf_path and pdf_files   *)
(* are <<>> where the caller passes None or nothing.                       *)
(***************************************************************************)
RECURSIVE FileLines(_)
\* [f"- {file_info['name']}: {file_info['path']}" for file_info in pdf_files]
FileLines(pdf_files) ==
    IF pdf_files = <<>> THEN <<>>
    ELSE <<(<<"- ">> \o pdf_files[1].name \o <<": ">> \o pdf_files[1].path)>>
            \o FileLines(Tail(pdf_files))

SinglePdfInput(path, user_input) ==
    <<"\nJ'ai un document PDF téléchargé au chemin : ">> \o path
        \o <<"\n\nDemande de l'utilisateur : \"">> \o user_input
        \o <<"\"\n\nVeuillez utiliser l'outil d'analyse PDF ... \n\nPDF disponible pour l'analyse à : ">>
        \o path \o <<"\n">>

FormatInput(user_input, pdf_path, pdf_files) ==
    IF Len(pdf_files) > 1
    THEN <<"\nJ'ai plusieurs documents PDF téléchargés :\n">>
            \o JoinWith(<<"\n">>, FileLines(pdf_files))
            \o <<"\n\nDemande de l'utilisateur : \"">> \o user_input
            \o <<"\"\n\nVeuillez utiliser l'outil d'analyse PDF ... \n\nPlusieurs PDF sont disponibles pour l'analyse. ...\n">>
    ELSE IF Len(pdf_files) > 0 THEN SinglePdfInput(pdf_files[1].path, user_input)
    ELSE IF pdf_path # <<>> THEN SinglePdfInput(pdf_path, user_input)
    ELSE <<"\nDemande de l'utilisateur : \"">> \o user_input
            \o <<"\"\n\nVeuillez aider l'utilisateur avec sa demande liée aux documents. ...\n">>

process_user_input(agent, user_input, pdf_path, pdf_files, run) ==
    [out |-> IF run.kind = "raise"
             THEN <<"Erreur lors du traitement de la demande : ", run.msg>>
             ELSE ToStr(run.value),
     runs |-> <<[agent |-> agent,
                 input |-> FormatInput(user_input, pdf_path, pdf_files),
                 pdf_files |-> pdf_files]>>]

(***************************************************************************)
(* The conversation of one submission: lines 356-455 of main.  `outs` are  *)
(* what the successive runs of the agent meet, each with the files the     *)
(* tools wrote into the scratch directory during the run.                  *)
(***************************************************************************)
AgentRuns ==
    { [out |-> Ret([type |-> "dict", repr |-> <<"{'file': 'report.xlsx'}">>]),
       writes |-> GeneratedNames],
      [out |-> Raise("Exception", "agent failed"), writes |-> {}] }

\* the greeting of lines 307-310 and of lines 462-465 (without its emoji)
WelcomeMessage ==
    [role |-> "assistant",
     content |-> <<"Bienvenue ! Je suis là pour vous aider à analyser des PDF et générer des documents. Veuillez télécharger un fichier PDF ou poser une question.">>]

ClearedMessage ==
    [role |-> "assistant",
     content |-> <<"Bienvenue ! Je suis là pour vous aider à analyser des PDF et générer des documents. Veuillez télécharger un fichier PDF ou poser une question.">>]

\* message_text if message_text.strip() else default
TextOr(message_text, default) ==
    IF strip(message_text) # <<>> THEN message_text ELSE default

\* the number of runs of the agent the submission asks for
RunsAsked(message_text, processed_files) ==
    IF processed_files = <<>> THEN 1
    ELSE IF Len(processed_files) > 1 /\ WantsComparison(message_text) THEN 1
    ELSE Len(processed_files)

RECURSIVE EachPdf_stop(_, _, _, _)
\* mutant of EachPdf: the loop ends at the first run of the agent that fails
EachPdf_stop(agent, message_text, files, outs) ==
    IF files = <<>> THEN [all_responses |-> <<>>, runs |-> <<>>]
    ELSE LET file_response ==
                 process_user_input(agent,
                     TextOr(message_text, <<"Veuillez analyser ce fichier PDF">>),
                     <<>>, <<files[1]>>, outs[1].out)
             rest == IF outs[1].out.kind = "raise"
                     THEN [all_responses |-> <<>>, runs |-> <<>>]
                     ELSE EachPdf_stop(agent, message_text, Tail(files), Tail(outs))
         IN  [all_responses |->
                  <<(<<"**">> \o files[1].name \o <<":**\n">> \o file_response.out)>>
                      \o rest.all_responses,
              runs |-> file_response.runs \o rest.runs]

RECURSIVE EachPdf(_, _, _, _)
\* the loop `for i, file_info in enumerate(processed_files)`
EachPdf(agent, message_text, files, outs) ==
    IF files = <<>> THEN [all_responses |-> <<>>, runs |-> <<>>]
    ELSE LET file_response ==
                 process_user_input(agent,
                     TextOr(message_text, <<"Veuillez analyser ce fichier PDF">>),
                     <<>>, <<files[1]>>, outs[1].out)
             rest == EachPdf(agent, message_text, Tail(files), Tail(outs))
         IN  [all_responses |->
                  <<(<<"**">> \o files[1].name \o <<":**\n">> \o file_response.out)>>
                      \o rest.all_responses,
              runs |-> file_response.runs \o rest.runs]

\* the block `with st.chat_message("assistant")` up to combined_response
Respond(agent, message_text, processed_files, outs) ==
    IF processed_files # <<>>
    THEN IF Len(processed_files) > 1 /\ WantsComparison(message_text)
         THEN LET r == process_user_input(agent,
                           TextOr(message_text, <<"Veuillez comparer ces fichiers PDF">>),
                           <<>>, processed_files, outs[1].out)
              IN  [combined_response |-> r.out, runs |-> r.runs]
         ELSE LET each == EachPdf(agent, message_text, processed_files, outs)
              IN  [combined_response |-> JoinWith(<<"\n\n---\n\n">>, each.all_responses),
                   runs |-> each.runs]
    ELSE LET r == process_user_input(agent, message_text, <<>>, <<>>, outs[1].out)
         IN  [combined_response |-> r.out, runs |-> r.runs]

UserMessage(message_text, processed_files) ==
    [role |-> "user",
     content |-> TextOr(message_text,
                        Decimal(Len(processed_files))
                            \o <<" fichier(s) PDF téléchargé(s) pour analyse">>),
     has_pdfs |-> Len(processed_files) > 0,
     pdf_files |-> processed_files]

SystemMessage(file) ==
    [role |-> "system",
     content |-> <<"Fichier généré disponible : ">> \o file,
     file_name |-> file]

\* the generated files no message of the history names yet
NewFiles(chat_history, listing) ==
    {f \in listing : IsGenerated(f)}
        \ {chat_history[i].file_name :
              i \in {j \in DOMAIN chat_history : "file_name" \in DOMAIN chat_history[j]}}

\* `if message_text.strip() or processed_files`
Accepted(message_text, processed_files) ==
    strip(message_text) # <<>> \/ processed_files # <<>>

AssistantMessage(combined_response) ==
    [role |-> "assistant", content |-> combined_response]

RECURSIVE Announce(_, _)
\* the loop `for file in new_files`: each file is opened and read, then its
\* message appended; open() raises on a file that is no longer in the
\* directory, and the loop ends there
Announce(new_files, listing) ==
    IF new_files = <<>> THEN [messages |-> <<>>, out |-> Ret(None)]
    ELSE IF new_files[1] \notin listing
    THEN [messages |-> <<>>,
          out |-> Raise("FileNotFoundError", "No such file or directory")]
    ELSE LET rest == Announce(Tail(new_files), listing)
         IN  [messages |-> <<SystemMessage(new_files[1])>> \o rest.messages,
              out |-> rest.out]

(***************************************************************************)
(* One call of the tool by the agent: a behaviour of ToolSpec is one call,  *)
(* on inputs and an environment drawn from the sets above.                 *)
(***************************************************************************)
CallForward(pdf_path, query, secrets, envKey, file, net) ==
    LET r == forward(pdf_path, query, secrets, envKey, file, net)
    IN  /\ call' = [made |-> TRUE, pdf_path |-> pdf_path, query |-> query,
                    secrets |-> secrets, envKey |-> envKey, file |-> file,
                    net |-> net, out |-> r.out, posts |-> r.posts]
        /\ UNCHANGED appVars

ToolInit == call = NoCall /\ AppInit

ToolNext ==
    /\ ~call.made
    /\ \E pdf_path \in Paths, query \in Queries, secrets \in SecretsOutcomes,
          envKey \in EnvKeys, file \in Files, net \in Nets :
           CallForward(pdf_path, query, secrets, envKey, file, net)

ToolSpec == ToolInit /\ [][ToolNext]_vars

(***************************************************************************)
(* Calls of _extract_pdf_text alone: a behaviour of ExtractSpec is a first  *)
(* extraction of the file found at pdf_path, then further extractions of   *)
(* the same file, left unchanged in between.                               *)
(***************************************************************************)
Extract(pdf_path, file) ==
    /\ ~call.made
    /\ call' = [made |-> TRUE, pdf_path |-> pdf_path, file |-> file,
                texts |-> <<extract_pdf_text(file)>>]
    /\ UNCHANGED appVars

ExtractAgain ==
    /\ call.made
    /\ Len(call.texts) < MaxExtractions
    /\ call' = [call EXCEPT !.texts = Append(@, extract_pdf_text(call.file))]
    /\ UNCHANGED appVars

ExtractInit == call = NoCall /\ AppInit

ExtractNext ==
    \/ \E pdf_path \in Paths, file \in Files : Extract(pdf_path, file)
    \/ ExtractAgain

ExtractSpec == ExtractInit /\ [][ExtractNext]_vars

(***************************************************************************)
(* The runs of main.  Streamlit runs main once per interaction of a        *)
(* browser session, each session on a thread of its own: the runs of one   *)
(* session follow one another, the runs of different sessions interleave.  *)
(* A run is one step, but where it works on the scratch directory: the     *)
(* clean-up of a session's first run and the saving of the uploaded files  *)
(* take one step per file, and the reading of the generated files is a     *)
(* step after the one that listed them.                                    *)
(***************************************************************************)
Has(s, key) == key \in DOMAIN session_state[s]

\* mutant of MainInterface: the chat history is created anew at every run
MainInterface_reset(state) ==
    IF "agent" \notin DOMAIN state THEN state
    ELSE SetItem(state, "chat_history", Append(<<>>, WelcomeMessage))

\* mutant of StoreAgent: what initialize_agent returns is stored, None too
StoreAgent_always(state, agent) == SetItem(state, "agent", agent)

\* lines 298-310: past the agent check, the chat history is created
MainInterface(state) ==
    IF "agent" \notin DOMAIN state THEN state
    ELSE IF "chat_history" \notin DOMAIN state
    THEN SetItem(state, "chat_history", Append(<<>>, WelcomeMessage))
    ELSE state

\* `if agent: st.session_state.agent = agent`
StoreAgent(state, agent) ==
    IF Truthy(agent) THEN SetItem(state, "agent", agent) ELSE state

\* mutant of clear_history: the greeting is appended to a history not emptied
clear_history_kept(chat_history) == Append(chat_history, ClearedMessage)

\* lines 461-465: the history is emptied and the greeting appended
clear_history(chat_history) == Append(<<>>, ClearedMessage)

\* the first run of a session begins: first_run is set, the directory listed
StartSession(s) ==
    /\ pc[s] = "idle"
    /\ ~Has(s, "first_run")
    /\ session_state' = [session_state EXCEPT ![s] = SetItem(@, "first_run", TRUE)]
    /\ work' = [work EXCEPT ![s] = [run |-> "first", todo |-> scratch]]
    /\ pc' = [pc EXCEPT ![s] = "cleanup"]
    /\ last' = NoStep
    /\ UNCHANGED <<call, scratch, turns>>

\* one turn of the clean-up loop: os.remove of a listed file
RemoveFile(s) ==
    /\ pc[s] = "cleanup"
    /\ \E f \in work[s].todo :
        /\ scratch' = scratch \ {f}
        /\ work' = [work EXCEPT ![s].todo = @ \ {f}]
    /\ last' = NoStep
    /\ UNCHANGED <<call, session_state, pc, turns>>

\* the rest of the first run: the agent is initialised, the page rendered
FinishFirstRun(s, env) ==
    /\ pc[s] = "cleanup"
    /\ work[s].todo = {}
    /\ session_state' =
           [session_state EXCEPT ![s] =
               MainInterface(StoreAgent(@, initialize_agent(DefaultModel, DefaultSteps, env)))]
    /\ pc' = [pc EXCEPT ![s] = "idle"]
    /\ work' = [work EXCEPT ![s] = NoWork]
    /\ last' = NoStep
    /\ UNCHANGED <<call, scratch, turns>>

\* a run on a click of the 'update agent' button
UpdateAgent(s, model_name, max_steps, env) ==
    /\ pc[s] = "idle"
    /\ Has(s, "first_run")
    /\ session_state' =
           [session_state EXCEPT ![s] =
               MainInterface(StoreAgent(@, initialize_agent(model_name, max_steps, env)))]
    /\ last' = [op |-> "update", session |-> s,
                made |-> Truthy(initialize_agent(model_name, max_steps, env))]
    /\ UNCHANGED <<call, scratch, pc, work, turns>>

\* a run on a submission of the chat input begins
BeginSubmit(s, message_text, uploaded_files) ==
    /\ pc[s] = "idle"
    /\ Has(s, "agent") /\ Has(s, "chat_history")
    /\ turns < MaxTurns
    /\ turns' = turns + 1
    /\ work' = [work EXCEPT ![s] = [run |-> "submit", message_text |-> message_text,
                                    submitted |-> uploaded_files,
                                    uploaded_files |-> uploaded_files,
                                    processed_files |-> <<>>]]
    /\ pc' = [pc EXCEPT ![s] = "upload"]
    /\ last' = NoStep
    /\ UNCHANGED <<call, session_state, scratch>>

\* one turn of the loop of handle_multiple_pdf_uploads
SaveUpload(s) ==
    /\ pc[s] = "upload"
    /\ work[s].uploaded_files # <<>>
    /\ LET uploaded_file == Head(work[s].uploaded_files)
           file_name == <<"uploaded_">> \o uploaded_file.name
       IN  IF uploaded_file.type = "application/pdf"
           THEN /\ scratch' = scratch \cup {file_name}
                /\ work' = [work EXCEPT
                       ![s].uploaded_files = Tail(@),
                       ![s].processed_files =
                           Append(@, [path |-> PathJoin(TempDir, file_name),
                                      name |-> uploaded_file.name,
                                      size |-> uploaded_file.size])]
           ELSE /\ scratch' = scratch
                /\ work' = [work EXCEPT ![s].uploaded_files = Tail(@)]
    /\ last' = NoStep
    /\ UNCHANGED <<call, session_state, pc, turns>>

\* the run of a submission after the upload: the user's message, the runs of
\* the agent and, with files, the assistant's message; without files the
\* generated files are listed and the run goes on to read them
RunAgent(s) ==
    /\ pc[s] = "upload"
    /\ work[s].uploaded_files = <<>>
    /\ LET message_text == work[s].message_text
           processed_files == work[s].processed_files
           chat_history == session_state[s].chat_history
           step(outs, runs, done) ==
               [op |-> "submit", session |-> s, text |-> message_text,
                submitted |-> work[s].submitted, files |-> processed_files,
                outs |-> outs, runs |-> runs, before |-> chat_history,
                done |-> done, raised |-> FALSE]
       IN  IF ~Accepted(message_text, processed_files)
           THEN /\ UNCHANGED <<session_state, scratch>>
                /\ pc' = [pc EXCEPT ![s] = "idle"]
                /\ work' = [work EXCEPT ![s] = NoWork]
                /\ last' = step(<<>>, <<>>, TRUE)
           ELSE \E outs \in [1..RunsAsked(message_text, processed_files) -> AgentRuns] :
                  LET answer == Respond(session_state[s].agent, message_text,
                                        processed_files, outs)
                      history1 == Append(chat_history,
                                         UserMessage(message_text, processed_files))
                      listing == scratch \cup UNION {outs[i].writes : i \in DOMAIN outs}
                  IN  /\ scratch' = listing
                      /\ IF processed_files # <<>>
                         THEN /\ session_state' =
                                     [session_state EXCEPT ![s].chat_history =
                                         Append(history1,
                                                AssistantMessage(answer.combined_response))]
                              /\ pc' = [pc EXCEPT ![s] = "idle"]
                              /\ work' = [work EXCEPT ![s] = NoWork]
                              /\ last' = step(outs, answer.runs, TRUE)
                         ELSE \E order \in Orders(NewFiles(history1, listing)) :
                                /\ session_state' =
                                       [session_state EXCEPT ![s].chat_history = history1]
                                /\ pc' = [pc EXCEPT ![s] = "respond"]
                                /\ work' = [work EXCEPT ![s] =
                                       [run |-> "respond",
                                        pending |-> step(outs, answer.runs, FALSE),
                                        combined_response |-> answer.combined_response,
                                        new_files |-> order]]
                                /\ last' = step(outs, answer.runs, FALSE)
    /\ UNCHANGED <<call, turns>>

\* the rest of the run of a submission without files: the generated files
\* are read, their messages and the assistant's message appended
FinishSubmit(s) ==
    /\ pc[s] = "respond"
    /\ LET shown == Announce(work[s].new_files, scratch)
           history2 == session_state[s].chat_history \o shown.messages
       IN  /\ session_state' =
                  [session_state EXCEPT ![s].chat_history =
                      IF shown.out.kind = "raise" THEN history2
                      ELSE Append(history2, AssistantMessage(work[s].combined_response))]
           /\ last' = [work[s].pending EXCEPT !.done = TRUE,
                                              !.raised = (shown.out.kind = "raise")]
    /\ pc' = [pc EXCEPT ![s] = "idle"]
    /\ work' = [work EXCEPT ![s] = NoWork]
    /\ UNCHANGED <<call, scratch, turns>>

\* a run on a click of the 'clear history' button
ClearHistory(s) ==
    /\ pc[s] = "idle"
    /\ Has(s, "agent") /\ Has(s, "chat_history")
    /\ session_state[s].chat_history # <<>>
    /\ session_state' =
           [session_state EXCEPT ![s].chat_history = clear_history(@)]
    /\ last' = [op |-> "clear", session |-> s,
                cleared |-> session_state[s].chat_history]
    /\ UNCHANGED <<call, scratch, pc, work, turns>>

\* the browser session ends (the page is closed or reloaded): its state is dropped
EndSession(s) ==
    /\ pc[s] = "idle"
    /\ session_state[s] # Empty
    /\ session_state' = [session_state EXCEPT ![s] = Empty]
    /\ last' = NoStep
    /\ UNCHANGED <<call, scratch, pc, work, turns>>

\* the application process restarts: every session state is lost, the
\* scratch directory stays on disk
AppRestart ==
    /\ session_state' = [s \in Sessions |-> Empty]
    /\ pc' = [s \in Sessions |-> "idle"]
    /\ work' = [s \in Sessions |-> NoWork]
    /\ last' = NoStep
    /\ UNCHANGED <<call, scratch, turns>>

Init == call = NoCall /\ AppInit

Next ==
    \/ \E s \in Sessions : StartSession(s)
    \/ \E s \in Sessions : RemoveFile(s)
    \/ \E s \in Sessions, env \in InitOutcomes : FinishFirstRun(s, env)
    \/ \E s \in Sessions, model_name \in ModelNames, max_steps \in StepChoices,
          env \in InitOutcomes : UpdateAgent(s, model_name, max_steps, env)
    \/ \E s \in Sessions, message_text \in Texts, uploaded_files \in Uploads :
          BeginSubmit(s, message_text, uploaded_files)
    \/ \E s \in Sessions : SaveUpload(s)
    \/ \E s \in Sessions : RunAgent(s)
    \/ \E s \in Sessions : FinishSubmit(s)
    \/ \E s \in Sessions : ClearHistory(s)
    \/ \E s \in Sessions : EndSession(s)
    \/ AppRestart

Spec == Init /\ [][Next]_vars

(***************************************************************************)
(* Properties of AIPDFTool.forward, checked under ToolSpec.  The           *)
(* conditions of a call are read from its inputs and its environment, the  *)
(* texts are written out as the documentation gives them.                  *)
(***************************************************************************)

\* a non-empty API key is configured: in the secrets store, or in the
\* environment when the secrets store has no such key or section
HasKey(c) ==
    \/ c.secrets.kind = "return" /\ c.secrets.value \notin {None, Str("")}
    \/ /\ c.secrets.kind = "raise"
       /\ c.secrets.cls \in {"KeyError", "AttributeError"}
       /\ c.envKey \notin {None, Str("")}

IsPdf(c) == c.file.file = "pdf"

\* every page of the document yields no text
NoPageText(c) == IsPdf(c) /\ \A i \in 1..Len(c.file.pages) : c.file.pages[i] = <<>>

\* the request failed: no response, or a response that is not 2xx
RequestFailed(resp) == resp.kind = "raise" \/ resp.status \notin 200..299

\* a 2xx response whose JSON body has a non-empty 'choices' list, the first
\* choice holding a message with a content
RequestSucceeded(resp) ==
    /\ resp.kind = "response"
    /\ resp.status \in 200..299
    /\ resp.body.parses
    /\ "choices" \in DOMAIN resp.body.value
    /\ resp.body.value.choices # <<>>
    /\ "message" \in DOMAIN resp.body.value.choices[1]
    /\ "content" \in DOMAIN resp.body.value.choices[1].message

Returned(c, text) == c.out = [kind |-> "return", value |-> [type |-> "str", val |-> text]]

\* C1 (as stated): every call on a pdf_path that does not exist returns
\* "Error: PDF file not found: <pdf_path>", whatever the other inputs and the
\* configuration are.
C1_NotFoundAlways ==
    (call.made /\ call.file.file = "absent")
        => Returned(call, "Error: PDF file not found: " \o call.pdf_path)

\* C1 (amended): a call on a pdf_path that does not exist never raises, and
\* returns "Error: PDF file not found: <pdf_path>" when a non-empty API key is
\* configured.
C1_NotFoundWithKey ==
    (call.made /\ call.file.file = "absent")
        => /\ call.out.kind = "return"
           /\ HasKey(call) => Returned(call, "Error: PDF file not found: " \o call.pdf_path)

\* C1 witness: a call with a key configured on a missing file, answered.
C1_Witness ==
    /\ call.made /\ call.file.file = "absent" /\ HasKey(call)
    /\ Returned(call, "Error: PDF file not found: temp/uploaded_a.pdf")

\* C2: whenever every page of the PDF yields no text, for any number of
\* pages, forward returns "Error: No text could be extracted from the PDF
\* file." and sends no request to the endpoint.
C2_EmptyExtraction ==
    (call.made /\ HasKey(call) /\ NoPageText(call))
        => /\ Returned(call, "Error: No text could be extracted from the PDF file.")
           /\ call.posts = <<>>

FailureMode(c) ==
    CASE ~HasKey(c) -> "missing credentials"
      [] c.file.file = "absent" -> "missing file"
      [] c.file.file = "unreadable" -> "unreadable file"
      [] NoPageText(c) -> "empty extraction"
      [] RequestFailed(c.net[1]) -> "network/API failure"
      [] ~RequestSucceeded(c.net[1]) -> "malformed API response"
      [] OTHER -> "none"

FiveModes ==
    {"missing credentials", "missing file", "empty extraction",
     "network/API failure", "malformed API response"}

AllCalls ==
    [pdf_path : Paths, query : Queries, secrets : SecretsOutcomes,
     envKey : EnvKeys, file : Files, net : Nets]

\* what forward gives on the calls of each failure mode
OutcomesOfMode ==
    [m \in FiveModes |->
        {forward(c.pdf_path, c.query, c.secrets, c.envKey, c.file, c.net).out :
            c \in {x \in AllCalls : FailureMode(x) = m}}]

\* C4: each of the five failure modes gives a returned error string that no
\* call of another failure mode gives, and none raises.
C4_DistinctErrors ==
    (call.made /\ FailureMode(call) \in FiveModes)
        => /\ call.out.kind = "return"
           /\ call.out.value.type = "str"
           /\ \A m \in FiveModes \ {FailureMode(call)} : call.out \notin OutcomesOfMode[m]

\* C6: one call of forward posts at most one request, and a failed request
\* ends the call with that request's failure, not with the answer to
\* another request.
C6_AtMostOneRequest ==
    call.made
        => /\ Len(call.posts) <= 1
           /\ (call.posts # <<>> /\ call.net[1].kind = "raise")
                => Returned(call, "Error processing request: API request failed: "
                                    \o call.net[1].msg)
           /\ (call.posts # <<>> /\ RequestFailed(call.net[1]))
                => ~Returned(call, "Answer to a retry")

\* C6 witness: the one request of the call timed out.
C6_Witness ==
    /\ call.made /\ Len(call.posts) = 1
    /\ call.net[1].kind = "raise"
    /\ Returned(call, "Error processing request: API request failed: Read timed out. (read timeout=60)")

\* C7: forward always returns a string: it never raises, whatever fails, and
\* never retries the failed request.
C7_AlwaysString ==
    call.made
        => /\ call.out.kind = "return"
           /\ call.out.value.type = "str"
           /\ Len(call.posts) <= 1

(***************************************************************************)
(* Properties of _extract_pdf_text, checked under ExtractSpec.             *)
(***************************************************************************)

\* the page-delimiter marker of page k, "\n--- Page k ---\n"
Delimiter(k) ==
    <<"\n", "-", "-", "-", " ", "P", "a", "g", "e", " ">> \o Decimal(k)
        \o <<" ", "-", "-", "-", "\n">>

RECURSIVE Concatenation(_, _)
\* for the pages k..n of a document: marker of page k, text of page k, and
\* so on in ascending page order
Concatenation(pages, k) ==
    IF k > Len(pages) THEN <<>>
    ELSE Delimiter(k) \o pages[k] \o Concatenation(pages, k + 1)

\* C11: every extraction of a document of n pages returns the concatenation,
\* for page 1..n in ascending order, of the marker "\n--- Page k ---\n" and
\* the text of page k; the extractions of one unchanged PDF return identical
\* text.
C11_ExtractionText ==
    (call.made /\ call.file.file = "pdf")
        => /\ \A i \in DOMAIN call.texts :
                call.texts[i] = [kind |-> "return",
                                 value |-> Concatenation(call.file.pages, 1)]
           /\ \A i, j \in DOMAIN call.texts : call.texts[i] = call.texts[j]

\* C11 witness: a document of two pages with different texts, extracted twice.
C11_Witness ==
    /\ call.made /\ Len(call.texts) = 2
    /\ call.file = [file |-> "pdf", pages |-> <<(<<"T">>), (<<"a", "\n", "b">>)>>]
    /\ call.texts[2].value =
           <<"\n", "-", "-", "-", " ", "P", "a", "g", "e", " ", "1", " ", "-", "-", "-", "\n",
             "T",
             "\n", "-", "-", "-", " ", "P", "a", "g", "e", " ", "2", " ", "-", "-", "-", "\n",
             "a", "\n", "b">>

(***************************************************************************)
(* Properties of the runs of main, checked under Spec.                     *)
(***************************************************************************)

\* C5: after the clear-history action, from any chat history, the history is
\* exactly one message: the assistant's greeting used at initialisation.
C5_ClearResets ==
    last.op = "clear"
        => session_state[last.session].chat_history = <<WelcomeMessage>>

\* C5 witness: a history holding user, system and assistant messages has
\* just been cleared.
C5_Witness ==
    /\ last.op = "clear"
    /\ Len(last.cleared) >= 4
    /\ \A r \in {"user", "assistant", "system"} :
          \E i \in DOMAIN last.cleared : last.cleared[i].role = r
    /\ Len(session_state[last.session].chat_history) = 1

\* an uploaded file of the scratch directory
IsUpload(name) == name # <<>> /\ name[1] = "uploaded_"

\* C8: an uploaded file, once written to the scratch directory, stays there
\* until the application restarts.
C8_KeptUntilRestart ==
    [][\A f \in scratch : (IsUpload(f) /\ ~AppRestart) => f \in scratch']_vars

\* a run of main of session s is inside one of its loops over the scratch
\* directory, with deletions or writes still to do
Writing(s) ==
    \/ pc[s] = "cleanup" /\ work[s].todo # {}
    \/ pc[s] = "upload" /\ work[s].uploaded_files # <<>>

\* C9: the scratch directory is single-writer: at no point are the runs of
\* two sessions both in the middle of their writes or deletions on it.
C9_SingleWriter ==
    \A s, t \in Sessions : (s # t) => ~(Writing(s) /\ Writing(t))

\* a file exists in the scratch directory at this path
FileAt(path) == \E name \in scratch : PathJoin(TempDir, name) = path

\* the UploadedFile records session s holds: in the user messages of its chat
\* history, and in the run of a submission on its way to the agent
RecordsHeld(s) ==
    (IF Has(s, "chat_history")
     THEN UNION {{session_state[s].chat_history[i].pdf_files[j] :
                    j \in DOMAIN session_state[s].chat_history[i].pdf_files} :
                 i \in {k \in DOMAIN session_state[s].chat_history :
                          session_state[s].chat_history[k].role = "user"}}
     ELSE {})
    \cup
    (IF pc[s] = "upload"
     THEN {work[s].processed_files[j] : j \in DOMAIN work[s].processed_files}
     ELSE {})

\* C10: for every UploadedFile record held, a file exists in the scratch
\* directory at the recorded path.
C10_RecordedFileExists ==
    \A s \in Sessions : \A record \in RecordsHeld(s) : FileAt(record.path)

\* the roles of a chat message
Roles == {"user", "assistant", "system"}

\* sequence a is the beginning of sequence b
IsPrefix(a, b) == Len(a) <= Len(b) /\ SubSeq(b, 1, Len(a)) = a

\* C12: within one browser session every step that is not a clear action
\* leaves the chat history unchanged or appends messages at its end, all the
\* earlier messages staying as they were and where they were, and every
\* message has the role user, assistant or system.
C12_AppendOnly ==
    [][\A s \in Sessions :
          ("chat_history" \in DOMAIN session_state'[s])
             => /\ \A i \in DOMAIN session_state'[s].chat_history :
                     session_state'[s].chat_history[i].role \in Roles
                /\ ("chat_history" \in DOMAIN session_state[s] /\ ~ClearHistory(s))
                     => IsPrefix(session_state[s].chat_history,
                                 session_state'[s].chat_history)]_vars

\* C12 witness: a submission has just ended on a history that it extended in
\* two steps, by the user's message and then by a system and an assistant
\* message.
C12_Witness ==
    /\ last.op = "submit" /\ last.done /\ last.before # <<>>
    /\ Len(session_state[last.session].chat_history) = Len(last.before) + 3
    /\ IsPrefix(last.before, session_state[last.session].chat_history)

\* C13: a submission with non-blank text or an accepted PDF appends exactly
\* one user message first and one assistant message last, with only system
\* 'generated file' messages between them; a submission with blank text and
\* no accepted PDF leaves the history unchanged and runs no agent.
C13_OneExchange ==
    (last.op = "submit" /\ last.done)
        => LET before == last.before
               after == session_state[last.session].chat_history
               n == Len(before)
               m == Len(after)
           IN  IF strip(last.text) # <<>> \/ last.files # <<>>
               THEN /\ m >= n + 2
                    /\ SubSeq(after, 1, n) = before
                    /\ after[n + 1].role = "user"
                    /\ after[m].role = "assistant"
                    /\ \A i \in (n + 2)..(m - 1) :
                          /\ after[i].role = "system"
                          /\ "file_name" \in DOMAIN after[i]
               ELSE after = before /\ last.runs = <<>>

\* an uploaded file that is accepted as a PDF
IsPdfUpload(uploaded_file) == uploaded_file.type = "application/pdf"

\* C14: an accepted submission runs the agent once when it has no accepted
\* PDF; once, on all the files together, when it has more than one accepted
\* PDF and its text contains a comparison keyword; otherwise once per
\* accepted PDF, in upload order, each run on that file alone, whether or not
\* an earlier run failed.
C14_RunsPerSubmission ==
    (last.op = "submit" /\ (strip(last.text) # <<>> \/ last.files # <<>>))
        => LET files == last.files
               runs == last.runs
               uploaded == SelectSeq(last.submitted, IsPdfUpload)
           IN  /\ Len(files) = Len(uploaded)
               /\ \A i \in DOMAIN files : files[i].name = uploaded[i].name
               /\ IF files = <<>>
                  THEN Len(runs) = 1 /\ runs[1].pdf_files = <<>>
                  ELSE IF Len(files) > 1 /\ WantsComparison(last.text)
                  THEN Len(runs) = 1 /\ runs[1].pdf_files = files
                  ELSE /\ Len(runs) = Len(files)
                       /\ \A i \in DOMAIN files : runs[i].pdf_files = <<files[i]>>

\* C14 witness: two PDFs and no comparison keyword; the run for the first
\* file failed and the run for the second file was made.
C14_Witness ==
    /\ last.op = "submit" /\ last.done
    /\ Len(last.files) = 2 /\ ~WantsComparison(last.text)
    /\ last.outs[1].out.kind = "raise"
    /\ Len(last.runs) = 2
    /\ last.runs[2].pdf_files = <<last.files[2]>>

\* C15: the stored agent of a session changes only in a step whose
\* initialisation succeeded; an 'update agent' step whose initialisation
\* failed leaves the stored agent as it was; and a session with no stored
\* agent has no chat history and no submission in progress or just made.
C15_AgentKept ==
    [][\A s \in Sessions :
          LET had == "agent" \in DOMAIN session_state[s]
              has == "agent" \in DOMAIN session_state'[s]
          IN  /\ (had /\ has /\ session_state'[s].agent # session_state[s].agent)
                   => /\ last'.op = "update" /\ last'.session = s /\ last'.made
                      /\ session_state'[s].agent.type = "CodeAgent"
              /\ (last'.op = "update" /\ last'.session = s /\ ~last'.made)
                   => /\ had = has
                      /\ had => session_state'[s].agent = session_state[s].agent
                      /\ ("chat_history" \in DOMAIN session_state[s])
                           => /\ "chat_history" \in DOMAIN session_state'[s]
                              /\ session_state'[s].chat_history
                                   = session_state[s].chat_history
              /\ ~has
                   => /\ "chat_history" \notin DOMAIN session_state'[s]
                      /\ pc'[s] \notin {"upload", "respond"}
                      /\ ~(last'.op = "submit" /\ last'.session = s)]_vars

\* C15 witness: an 'update agent' step has just failed in a session that has
\* an agent and a conversation.
C15_Witness ==
    /\ last.op = "update" /\ ~last.made
    /\ "agent" \in DOMAIN session_state[last.session]
    /\ session_state[last.session].agent.type = "CodeAgent"
    /\ Len(session_state[last.session].chat_history) >= 3

====
